---- MODULE Spec2Model ----
(***************************************************************************)
(* Model of src/charm.py: GenericExporterCharm, the operator that installs *)
(* a prometheus exporter snap (from an attached resource or from the       *)
(* store), pushes its snap configuration and writes the alert-rules file.  *)
(*                                                                         *)
(* The operator instance (its loaded configuration and its observers),     *)
(* the environment it runs in (attached resource, package manager) and the *)
(* host it acts on (installed snaps, their configuration, the rules        *)
(* directory and file, the unit status) are the state.  A hook is one      *)
(* atomic step: handlers run to completion, one at a time.                 *)
(***************************************************************************)
EXTENDS Naturals, Sequences, FiniteSets

VARIABLES
    config,       \* self._config, the ExporterConfig loaded by __init__
    observers,    \* event name -> handler registered by framework.observe
    cos,          \* self.cos, the COSAgentProvider registration
    resource,     \* what is attached as the "exporter-snap" resource
    pm,           \* the package manager call that fails, if any
    status,       \* self.unit.status
    installed,    \* snaps present on the host
    snapconf,     \* snap name -> configuration held by the snap
    rules_dir,    \* TRUE iff /etc/<app-name>/ exists
    rules_file,   \* content of /etc/<app-name>/alerts.rules
    event,        \* the hook dispatched last in the current environment
    trace,        \* the external calls that hook made, in order
    exc,          \* the exception that hook ended with
    ret,          \* what _install_snap returned in that hook
    pre,          \* rules directory and file as they were when that hook began
    repeat        \* TRUE iff that hook repeated the hook before it

vars == <<config, observers, cos, resource, pm, status, installed, snapconf,
          rules_dir, rules_file, event, trace, exc, ret, pre, repeat>>

----------------------------------------------------------------------------
(* Values *)

\* Python's None, for the optional strings of ExporterConfig and for "no value"
NULL == "<null>"

\* a file that does not exist
NoFile == "<no file>"

RESOURCE_NAME == "exporter-snap"

\* the name snap.install_local reports for the attached resource
ResourceSnap == "local-exporter"

\* the store package named by snap-name
StoreSnap == "node-exporter"

Snaps == {ResourceSnap, StoreSnap}

\* the application name, self.app.name
AppName == "generic-exporter"

SnapNames == {NULL, "", "None", StoreSnap}

SnapConfigs == {NULL, "", "None", "{}", "port: 9100"}

AlertRules == {NULL, "", "groups: []"}

\* class ExporterConfig; loaded is FALSE when load_config raised ValueError
ExporterConfig ==
    [loaded : {TRUE}, exporter_port : {9100}, snap_name : SnapNames,
     snap_config : SnapConfigs, snap_channel : {"latest/stable"},
     classic : {FALSE}, metrics_path : {"metrics"}, alert_rules : AlertRules]

\* self._config is never assigned when load_config raises
NoConfig ==
    [loaded |-> FALSE, exporter_port |-> 0, snap_name |-> NULL,
     snap_config |-> NULL, snap_channel |-> NULL, classic |-> FALSE,
     metrics_path |-> NULL, alert_rules |-> NULL]

\* str(e) of the ValueError raised by load_config
ConfigErrText == "exporter_port: field required"

SnapNameErr ==
    "Either snap-name needs to be configured or a snap needs to be attached as a resource"

BlockedStatus(msg) == [kind |-> "blocked", message |-> msg]

ActiveStatus(msg) == [kind |-> "active", message |-> msg]

\* the status of a unit before any hook has set one
InitialStatus == [kind |-> "maintenance", message |-> ""]

Events == {"install", "config_changed", "upgrade_charm"}

NoObservers == [e \in Events |-> "none"]

NoCos == [registered |-> FALSE, path |-> <<>>, port |-> 0, rules_dir |-> <<>>,
          refresh_events |-> {}]

\* Path(f"/etc/{self.app.name}/")
RulesDirPath == <<"/etc", AppName>>

Resources == {"absent", "empty", "nonempty"}

\* the call to the package manager that fails, if any: snap.install_local,
\* cache[name] (the store does not know the snap), ensure, or set.  A handler
\* makes each call at most once and ends at the first one that raises, so one
\* failing call stands for every set of failing calls that it is the first of.
PackageManagers == {"ok", "install_local", "cache_lookup", "ensure", "set"}

\* Python truthiness of an optional string
Falsy(s) == s = NULL \/ s = ""

Call(op, arg) == [op |-> op, arg |-> arg]

----------------------------------------------------------------------------
(* The host as a handler sees and changes it.  A handler is an operator    *)
(* from the host before it to the host after it; exc is the exception it   *)
(* ended with ("none" when it returned) and ret its return value.          *)

Host ==
    [status |-> status, installed |-> installed, snapconf |-> snapconf,
     rules_dir |-> rules_dir, rules_file |-> rules_file,
     trace |-> <<>>, exc |-> "none", ret |-> NULL]

Log(h, op, arg) == [h EXCEPT !.trace = Append(@, Call(op, arg))]

Raise(h, e) == [h EXCEPT !.exc = e]

\* self.unit.status = st
SetStatus(h, st) == Log([h EXCEPT !.status = st], "status", st.message)

\* self.model.resources.fetch(RESOURCE_NAME): ModelError when none is attached
fetch(h, res) ==
    LET h1 == Log(h, "fetch", RESOURCE_NAME)
    IN  IF res = "absent" THEN Raise(h1, "ModelError") ELSE h1

\* snap.install_local(filename, dangerous=True, classic=...)
install_local(h, p) ==
    LET h1 == Log(h, "install_local", ResourceSnap)
    IN  IF p = "install_local"
        THEN Raise(h1, "SnapError")
        ELSE [h1 EXCEPT !.installed = @ \cup {ResourceSnap}, !.ret = ResourceSnap]

_install_from_resource(h, res, p) ==
    IF res = "empty"
    THEN Raise(h, "ModelError")
    ELSE install_local(h, p)

\* "except Exception" in place of "except ops.model.ModelError"
CaughtAll(e) == TRUE

\* except ops.model.ModelError: the exceptions _install_snap absorbs
Caught(e) == e = "ModelError"

\* the test without its comparison to the placeholder "None"
NotConfiguredNoPlaceholder(cfg_name) == Falsy(cfg_name)

\* not cfg_name or cfg_name == "None"
NotConfigured(cfg_name) == Falsy(cfg_name) \/ cfg_name = "None"

_install_from_store(h, name, p) ==
    LET h1 == Log(h, "cache_lookup", name)
    IN  IF p = "cache_lookup"
        THEN Raise(h1, "SnapNotFoundError")
        ELSE IF name \in h1.installed
        THEN h1
        ELSE LET h2 == Log(h1, "ensure", name)
             IN  IF p = "ensure"
                 THEN Raise(h2, "SnapError")
                 ELSE [h2 EXCEPT !.installed = @ \cup {name}]

\* the handler that forgets "return name" after the resource install
_install_snap_no_return(h, cfg, res, p) ==
    LET f == fetch(h, res)
        r == IF f.exc = "none" THEN _install_from_resource(f, res, p) ELSE f
        a == IF r.exc = "none"
             THEN SetStatus(r, ActiveStatus("snap installed"))
             ELSE r
    IN  IF r.exc # "none" /\ ~Caught(r.exc)
        THEN r
        ELSE LET c == [a EXCEPT !.exc = "none"]
                 cfg_name == cfg.snap_name
             IN  IF NotConfigured(cfg_name)
                 THEN Raise(SetStatus(c, BlockedStatus(SnapNameErr)),
                            "SnapNameNotConfigured")
                 ELSE LET s == _install_from_store(c, cfg_name, p)
                      IN  IF s.exc # "none"
                          THEN s
                          ELSE [SetStatus(s, ActiveStatus("snap installed"))
                                   EXCEPT !.ret = cfg.snap_name]

_install_snap(h, cfg, res, p) ==
    LET f == fetch(h, res)
        r == IF f.exc = "none" THEN _install_from_resource(f, res, p) ELSE f
    IN  IF r.exc = "none"
        THEN SetStatus(r, ActiveStatus("snap installed"))
        ELSE IF ~Caught(r.exc)
        THEN r
        ELSE LET c == [r EXCEPT !.exc = "none"]
                 cfg_name == cfg.snap_name
             IN  IF NotConfigured(cfg_name)
                 THEN Raise(SetStatus(c, BlockedStatus(SnapNameErr)),
                            "SnapNameNotConfigured")
                 ELSE LET s == _install_from_store(c, cfg_name, p)
                      IN  IF s.exc # "none"
                          THEN s
                          ELSE [SetStatus(s, ActiveStatus("snap installed"))
                                   EXCEPT !.ret = cfg.snap_name]

----------------------------------------------------------------------------
(* yaml.safe_load on the texts of SnapConfigs, and Python truthiness of    *)
(* what it returns.  A mapping is a set of <<key, value>> pairs.           *)

YNull == [type |-> "null", str |-> "", map |-> {}]

YStr(t) == [type |-> "str", str |-> t, map |-> {}]

YMap(m) == [type |-> "map", str |-> "", map |-> m]

safe_load(text) ==
    CASE text = "" -> YNull
      [] text = "None" -> YStr("None")
      [] text = "{}" -> YMap({})
      [] text = "port: 9100" -> YMap({<<"port", 9100>>})

Truthy(v) ==
    CASE v.type = "null" -> FALSE
      [] v.type = "str" -> v.str # ""
      [] v.type = "map" -> v.map # {}

\* the test without its comparison to the placeholder "None"
AnyValue(v) == TRUE

\* snap_config != "None"
NotNoneString(v) == ~(v.type = "str" /\ v.str = "None")

\* the keys of new replace those of old, the other keys of old stay
Merge(old, new) ==
    {kv \in old : \A n \in new : n[1] # kv[1]} \cup new

\* cache[name].set(snap_config, typed=True)
snap_set(h, name, snap_config, p) ==
    LET h1 == Log(h, "set", name)
    IN  IF p = "set"
        THEN Raise(h1, "SnapError")
        ELSE [h1 EXCEPT !.snapconf[name] = Merge(@, snap_config.map)]

\* mkdir without exist_ok=True: FileExistsError when the directory exists
mkdir_not_exist_ok(h) ==
    IF h.rules_dir
    THEN Raise(Log(h, "mkdir", AppName), "FileExistsError")
    ELSE [Log(h, "mkdir", AppName) EXCEPT !.rules_dir = TRUE]

\* rules_dir.mkdir(parents=True, exist_ok=True)
mkdir(h) == [Log(h, "mkdir", AppName) EXCEPT !.rules_dir = TRUE]

\* a write that keeps the file when there is one
write_text_if_missing(h, text) ==
    [Log(h, "write_text", text)
        EXCEPT !.rules_file = IF @ = NoFile THEN text ELSE @]

\* (rules_dir / "alerts.rules").write_text(text)
write_text(h, text) == [Log(h, "write_text", text) EXCEPT !.rules_file = text]

\* the handler going on after the install step raised
_configure_ignore_install_error(h, cfg, res, p) ==
    LET i0 == _install_snap(h, cfg, res, p)
        i == [i0 EXCEPT !.exc = "none"]
        name == i.ret
        snap_config ==
            safe_load(IF Falsy(cfg.snap_config) THEN "" ELSE cfg.snap_config)
        s == IF Truthy(snap_config) /\ NotNoneString(snap_config) /\ name \in Snaps
             THEN snap_set(i, name, snap_config, p)
             ELSE i
        d == mkdir(s)
        rules == cfg.alert_rules
        w == write_text(d, IF Falsy(rules) THEN "# no alerts\n" ELSE rules)
    IN  IF s.exc # "none"
        THEN s
        ELSE IF d.exc # "none"
        THEN d
        ELSE SetStatus(w, ActiveStatus("configured"))

_configure(h, cfg, res, p) ==
    LET i == _install_snap(h, cfg, res, p)
        name == i.ret
        snap_config ==
            safe_load(IF Falsy(cfg.snap_config) THEN "" ELSE cfg.snap_config)
        s == IF Truthy(snap_config) /\ NotNoneString(snap_config)
             THEN snap_set(i, name, snap_config, p)
             ELSE i
        d == mkdir(s)
        rules == cfg.alert_rules
        w == write_text(d, IF Falsy(rules) THEN "# no alerts\n" ELSE rules)
    IN  IF i.exc # "none"
        THEN i
        ELSE IF s.exc # "none"
        THEN s
        ELSE IF d.exc # "none"
        THEN d
        ELSE SetStatus(w, ActiveStatus("configured"))

----------------------------------------------------------------------------
(* Construction.  juju is the unit's declared configuration: a member of   *)
(* ExporterConfig, or NoConfig when it does not validate.                  *)

\* self.load_config(ExporterConfig): ValueError when validation fails
load_config(juju) == juju.loaded

Observed ==
    [e \in Events |->
        IF e = "config_changed" THEN "_configure" ELSE "_install_snap"]

COSAgentProvider(cfg) ==
    [registered |-> TRUE, path |-> <<"/", cfg.metrics_path>>,
     port |-> cfg.exporter_port, rules_dir |-> RulesDirPath,
     refresh_events |-> {"config_changed"}]

\* the constructor without the early return of its except branch
__init__no_return(juju, st) ==
    IF ~load_config(juju)
    THEN [config |-> NoConfig, status |-> BlockedStatus(ConfigErrText),
          observers |-> Observed, cos |-> COSAgentProvider(NoConfig)]
    ELSE [config |-> juju, status |-> st,
          observers |-> Observed, cos |-> COSAgentProvider(juju)]

\* GenericExporterCharm.__init__
__init__(juju, st) ==
    IF ~load_config(juju)
    THEN [config |-> NoConfig, status |-> BlockedStatus(ConfigErrText),
          observers |-> NoObservers, cos |-> NoCos]
    ELSE [config |-> juju, status |-> st,
          observers |-> Observed, cos |-> COSAgentProvider(juju)]

JujuConfigs == ExporterConfig \cup {NoConfig}

----------------------------------------------------------------------------
(* Actions *)

NoHook ==
    /\ event' = "none"
    /\ trace' = <<>>
    /\ exc' = "none"
    /\ ret' = NULL
    /\ pre' = [rules_dir |-> rules_dir, rules_file |-> rules_file]
    /\ repeat' = FALSE

Init ==
    \E juju \in JujuConfigs :
        LET self == __init__(juju, InitialStatus)
        IN  /\ config = self.config
            /\ observers = self.observers
            /\ cos = self.cos
            /\ status = self.status
            /\ resource \in Resources
            /\ pm \in PackageManagers
            /\ installed = {}
            /\ snapconf = [n \in Snaps |-> {}]
            /\ rules_dir = FALSE
            /\ rules_file = NoFile
            /\ event = "none"
            /\ trace = <<>>
            /\ exc = "none"
            /\ ret = NULL
            /\ pre = [rules_dir |-> FALSE, rules_file |-> NoFile]
            /\ repeat = FALSE

\* the charm process starts again and the operator is constructed anew
Restart ==
    \E juju \in JujuConfigs :
        LET self == __init__(juju, status)
        IN  /\ config' = self.config
            /\ observers' = self.observers
            /\ cos' = self.cos
            /\ status' = self.status
            /\ NoHook
            /\ UNCHANGED <<resource, pm, installed, snapconf, rules_dir, rules_file>>

\* juju attach-resource, or the resource is removed
AttachResource ==
    /\ \E r \in Resources \ {resource} : resource' = r
    /\ NoHook
    /\ UNCHANGED <<config, observers, cos, pm, status, installed, snapconf,
                   rules_dir, rules_file>>

\* the package manager or the store starts to answer differently
PackageManagerChanges ==
    /\ \E p \in PackageManagers \ {pm} : pm' = p
    /\ NoHook
    /\ UNCHANGED <<config, observers, cos, resource, status, installed,
                   snapconf, rules_dir, rules_file>>

\* the framework emits e: the handler observing it runs to completion
Dispatch(e) ==
    LET handler == observers[e]
        h == CASE handler = "_install_snap" ->
                    _install_snap(Host, config, resource, pm)
               [] handler = "_configure" ->
                    _configure(Host, config, resource, pm)
               [] OTHER -> Host
    IN  /\ status' = h.status
        /\ installed' = h.installed
        /\ snapconf' = h.snapconf
        /\ rules_dir' = h.rules_dir
        /\ rules_file' = h.rules_file
        /\ trace' = h.trace
        /\ exc' = h.exc
        /\ ret' = h.ret
        /\ event' = e
        /\ pre' = [rules_dir |-> rules_dir, rules_file |-> rules_file]
        /\ repeat' = (event = e)
        /\ UNCHANGED <<config, observers, cos, resource, pm>>

Install == Dispatch("install")

ConfigChanged == Dispatch("config_changed")

UpgradeCharm == Dispatch("upgrade_charm")

Next ==
    \/ Install
    \/ ConfigChanged
    \/ UpgradeCharm
    \/ Restart
    \/ AttachResource
    \/ PackageManagerChanges

Spec == Init /\ [][Next]_vars

----------------------------------------------------------------------------
(* Reading the record of the last hook *)

\* the positions of the calls to op in the last hook
Calls(op) == {i \in DOMAIN trace : trace[i].op = op}

Called(op) == Calls(op) # {}

\* the positions at which the last hook set the status to the message msg
StatusSet(msg) == {i \in Calls("status") : trace[i].arg = msg}

\* the last hook ran a handler, and so _install_snap
RanInstaller == event \in Events /\ observers[event] # "none"

RanInstallOrUpgrade ==
    event \in {"install", "upgrade_charm"} /\ observers[event] = "_install_snap"

RanConfigure == event = "config_changed" /\ observers[event] = "_configure"

ResourcePath == Called("install_local")

StorePath == Called("cache_lookup") \/ Called("ensure")

SnapNameUnset == Falsy(config.snap_name) \/ config.snap_name = "None"

SnapConfigUnset == Falsy(config.snap_config) \/ config.snap_config = "None"

\* snap-config parses to a non-empty mapping
SnapConfigIsMapping == config.snap_config = "port: 9100"

\* every position of a is before every position of b
Before(a, b) == \A i \in a : \A j \in b : i < j

----------------------------------------------------------------------------
(* Claims *)

\* C1: with a zero-byte resource attached, _install_snap (install,
\* upgrade-charm or config-changed) ends with an error and never reaches the
\* store lookup or install, whatever snap-name is.
C1_EmptyResourceNoFallback ==
    (RanInstaller /\ resource = "empty") =>
        (exc # "none" /\ ~StorePath)

\* C2: with a non-empty resource attached, no run of _install_snap consults
\* the store or raises SnapNameNotConfigured, whatever snap-name is and even
\* when the local install fails.
C2_NonEmptyResourceNeverStore ==
    (RanInstaller /\ resource = "nonempty") =>
        (ResourcePath /\ ~StorePath /\ exc # "SnapNameNotConfigured")

\* a hook with a non-empty resource and a store name configured, in which the
\* local install failed
C2_Witness ==
    /\ RanInstaller
    /\ resource = "nonempty"
    /\ config.snap_name = StoreSnap
    /\ exc = "SnapError"
    /\ ResourcePath

\* C3: with no resource attached and snap-name empty, absent or "None",
\* _install_snap fails with SnapNameNotConfigured, the status is blocked with
\* the descriptive message, and no store lookup or install is made.
C3_NoNameNoResourceBlocked ==
    (RanInstaller /\ resource = "absent" /\ SnapNameUnset) =>
        /\ exc = "SnapNameNotConfigured"
        /\ status = BlockedStatus(SnapNameErr)
        /\ ~StorePath
        /\ ~ResourcePath

\* a hook with no resource and the placeholder "None" as snap-name
C3_Witness ==
    /\ RanInstaller
    /\ resource = "absent"
    /\ config.snap_name = "None"
    /\ exc = "SnapNameNotConfigured"

\* C4 as stated: every install or upgrade-charm event performs exactly one of
\* the resource install and the store install, the resource one whenever a
\* resource is attached and the store one only otherwise.
C4_ExactlyOneInstall ==
    RanInstallOrUpgrade =>
        /\ ResourcePath # StorePath
        /\ (resource # "absent") = ResourcePath

\* C4 as amended: an install or upgrade-charm event never performs both
\* installs; with a non-empty resource it performs the resource install alone;
\* with no resource attached it performs the store install when snap-name is
\* set and no install at all when snap-name is unset.
C4_AtMostOneInstall ==
    RanInstallOrUpgrade =>
        /\ ~(ResourcePath /\ StorePath)
        /\ (resource = "nonempty" => ResourcePath)
        /\ (resource = "absent" => (StorePath = ~SnapNameUnset))

\* an upgrade-charm with a non-empty resource and a store name configured,
\* installed from the resource
C4_Witness ==
    /\ event = "upgrade_charm"
    /\ RanInstallOrUpgrade
    /\ resource = "nonempty"
    /\ config.snap_name = StoreSnap
    /\ ret = ResourceSnap
    /\ status = ActiveStatus("snap installed")

\* C5: when loading the configuration failed, the status is blocked with the
\* validation error text, no handler observes install, config-changed or
\* upgrade-charm, nothing is registered with the metrics integration, and a
\* hook dispatched to that operator makes no call: no install, no
\* configuration push, no write of the rules directory or file.
C5_FailedLoadIsInert ==
    ~config.loaded =>
        /\ status = BlockedStatus(ConfigErrText)
        /\ observers = NoObservers
        /\ cos = NoCos
        /\ trace = <<>>
        /\ exc = "none"
        /\ pre = [rules_dir |-> rules_dir, rules_file |-> rules_file]

\* config-changed dispatched to an operator whose configuration did not load,
\* on a host where an earlier operator had installed a snap
C5_Witness ==
    /\ ~config.loaded
    /\ event = "config_changed"
    /\ installed # {}

\* C6: every failure ends with the status blocked with a message: a hook that
\* raised, a hook that met an empty resource, a failed construction.
C6_EveryFailureBlocked ==
    (exc # "none" \/ ~config.loaded \/ (RanInstaller /\ resource = "empty")) =>
        (status.kind = "blocked" /\ status.message # "")

\* what C7 compares: the rules file and its directory, the installed snaps,
\* the configuration pushed to them, the unit status
Observable == <<rules_file, rules_dir, installed, snapconf, status>>

\* C7: config-changed run a second time in a row, with the configuration, the
\* resource and the package manager as they were, leaves the rules file, the
\* installed snaps, the pushed configuration and the status as the first run
\* left them.
C7_ConfigureIdempotent ==
    [][(RanConfigure /\ event' = "config_changed") => Observable' = Observable]_vars

\* a second config-changed in a row that installed from the resource again,
\* pushed a configuration and wrote the rules file
C7_Witness ==
    /\ RanConfigure
    /\ repeat
    /\ exc = "none"
    /\ resource = "nonempty"
    /\ Called("install_local")
    /\ Called("set")
    /\ Called("write_text")

\* C8: a config-changed whose snap-config is unset, empty or "None" makes no
\* configuration push; one whose snap-config is a non-empty mapping and whose
\* install step returned makes exactly one, to the name that step returned:
\* the resource's snap when it installed the resource, snap-name otherwise.
C8_PushOnlyForMapping ==
    RanConfigure =>
        /\ SnapConfigUnset => ~Called("set")
        /\ (SnapConfigIsMapping /\ ret # NULL) =>
              /\ Cardinality(Calls("set")) = 1
              /\ \A i \in Calls("set") : trace[i].arg = ret
              /\ ret = IF ResourcePath THEN ResourceSnap ELSE config.snap_name

\* a config-changed that pushed a mapping to the resource's snap while
\* snap-name named another snap
C8_Witness ==
    /\ RanConfigure
    /\ SnapConfigIsMapping
    /\ resource = "nonempty"
    /\ config.snap_name = StoreSnap
    /\ Called("set")
    /\ snapconf[ResourceSnap] # {}
    /\ snapconf[StoreSnap] = {}

\* the rules directory exists and was made before the one write of the file
DirMadeBeforeWrite ==
    /\ rules_dir
    /\ Called("mkdir")
    /\ Cardinality(Calls("write_text")) = 1
    /\ Before(Calls("mkdir"), Calls("write_text"))

\* C9 as stated: after a config-changed that completes, the rules file holds
\* the alert-rules text when it is set and "# no alerts\n" when it is unset,
\* whatever the file held before, and the directory was made before the write.
C9_RulesFileIsAlertRules ==
    (RanConfigure /\ exc = "none") =>
        /\ rules_file = IF config.alert_rules = NULL
                        THEN "# no alerts\n"
                        ELSE config.alert_rules
        /\ DirMadeBeforeWrite

\* C9 as amended: the rules file holds the alert-rules text when it is set
\* to a non-empty text, and "# no alerts\n" when it is unset or empty.
C9_RulesFileIsNonEmptyAlertRules ==
    (RanConfigure /\ exc = "none") =>
        /\ rules_file = IF config.alert_rules = NULL \/ config.alert_rules = ""
                        THEN "# no alerts\n"
                        ELSE config.alert_rules
        /\ DirMadeBeforeWrite

\* a config-changed with no alert rules that replaced the rules written by an
\* earlier one
C9_Witness ==
    /\ RanConfigure
    /\ exc = "none"
    /\ pre.rules_file = "groups: []"
    /\ config.alert_rules = NULL
    /\ rules_file = "# no alerts\n"

\* the install step of the last hook did not complete
InstallStepFailed == StatusSet("snap installed") = {}

\* C10: a config-changed whose install step fails makes no push, leaves the
\* rules directory and file as they were and does not set the status to
\* active("configured"); the status is set to active("configured") only
\* after the install step, the push when there is one, the making of the
\* directory and the write of the file, in that order.
C10_ConfigureAbortsOnInstallFailure ==
    RanConfigure =>
        /\ InstallStepFailed =>
              /\ exc # "none"
              /\ ~Called("set")
              /\ ~Called("mkdir")
              /\ ~Called("write_text")
              /\ StatusSet("configured") = {}
              /\ rules_dir = pre.rules_dir
              /\ rules_file = pre.rules_file
        /\ StatusSet("configured") # {} =>
              /\ exc = "none"
              /\ ~InstallStepFailed
              /\ Called("write_text")
              /\ Before(StatusSet("snap installed"), Calls("set"))
              /\ Before(StatusSet("snap installed"), Calls("mkdir"))
              /\ Before(Calls("set"), Calls("mkdir"))
              /\ Before(Calls("mkdir"), Calls("write_text"))
              /\ Before(Calls("write_text"), StatusSet("configured"))
              /\ StatusSet("configured") = {Len(trace)}

\* a config-changed whose install from the store failed, on a host whose rules
\* file an earlier config-changed had written with other rules
C10_Witness ==
    /\ RanConfigure
    /\ exc = "SnapError"
    /\ InstallStepFailed
    /\ Called("ensure")
    /\ rules_file = "groups: []"
    /\ config.alert_rules = NULL

====
